---------------------------- MODULE Spec2Model ----------------------------
(***************************************************************************)
(* Authority / signature verification of graphene transactions             *)
(* (libraries/protocol/transaction.cpp): sign_state, verify_authority,     *)
(* get_signature_keys, get_required_signatures and                         *)
(* minimize_required_signatures.                                           *)
(*                                                                         *)
(* Public keys and account ids are small integers (flat_set / flat_map     *)
(* iterate in ascending order, and so do the loops below).  An authority   *)
(* pointer is a sequence of length 0 (nullptr) or 1.                       *)
(***************************************************************************)
EXTENDS Integers, Sequences, FiniteSets, TLC

(***************************************************************************)
(* Bounds of the model.                                                    *)
(***************************************************************************)
NKeys == 2
MaxRecursion == 2
MaxWeight == 1
MaxSigs == 2
MaxExpiration == 1

(***************************************************************************)
(* Program constants.                                                      *)
(***************************************************************************)
GRAPHENE_COMMITTEE_ACCOUNT == 0
GRAPHENE_TEMP_ACCOUNT == 4

Keys == 1..NKeys
\* the value read through a past-the-end map iterator: no real key
GarbageKey == NKeys + 1
Users == (GRAPHENE_TEMP_ACCOUNT + 1)..(GRAPHENE_TEMP_ACCOUNT + MaxRecursion + 2)
Accounts == {GRAPHENE_COMMITTEE_ACCOUNT, GRAPHENE_TEMP_ACCOUNT} \cup Users

\* What a build does on undefined behaviour: a hardened / debug build traps,
\* a plain build reads whatever lies behind the bad iterator or pointer.
Builds == {"trap", "lenient"}

VARIABLES
    build,          \* behaviour of this build on undefined behaviour
    active_auths,   \* chain state behind get_active: account -> authority
    owner_auths,    \* chain state behind get_owner: account -> authority
    custom_auths,   \* chain state behind get_custom: <<account, op id>> -> authorities
    trx,            \* the transaction: header fields, operations, signatures,
                    \* the cache _signees, and whether it is a
                    \* precomputable_transaction
    pc,             \* "idle" or "returned"; "running", "done", "aborted" in steps
    call,           \* the last call and its arguments
    result,         \* what the last call returned or threw
    frames,         \* the stack of check_authority calls in progress
    sstate,         \* the sign_state those calls work on
    ret             \* the value a finished call hands to its caller

vars == <<build, active_auths, owner_auths, custom_auths, trx, pc, call, result,
          frames, sstate, ret>>

(***************************************************************************)
(* Helpers: ordered iteration of flat_set / flat_map / std::set.           *)
(***************************************************************************)
Min(S) == CHOOSE x \in S : \A y \in S : x <= y

RECURSIVE Ascending(_)
Ascending(S) == IF S = {} THEN <<>>
                ELSE LET m == Min(S) IN <<m>> \o Ascending(S \ {m})

\* m[k] = v on a map (insert or overwrite)
Put(m, k, v) == [x \in DOMAIN m \cup {k} |-> IF x = k THEN v ELSE m[x]]

\* map.erase(k)
Erase(m, k) == [x \in DOMAIN m \ {k} |-> m[x]]

EmptyMap == [x \in {} |-> 0]

RECURSIVE SumWeights(_)
SumWeights(m) == IF DOMAIN m = {} THEN 0
                 ELSE LET k == Min(DOMAIN m) IN m[k] + SumWeights(Erase(m, k))

(***************************************************************************)
(* Addresses.  address(pts_address(key, compressed, version)) and          *)
(* address(key) are hashes of the key: five distinct encodings per key,    *)
(* modelled as distinct numbers.                                           *)
(***************************************************************************)
pts_address(key, compressed, version) ==
    [key |-> key, compressed |-> compressed, version |-> version]

address_of_pts(p) ==
    p.key * 8 + (IF p.version = 56 THEN 1 ELSE 3) + (IF p.compressed THEN 1 ELSE 0)

address_of_key(key) == key * 8 + 5

\* the five (address, key) entries one key adds to an address table
AddressEntries(item) ==
    { <<address_of_pts(pts_address(item, FALSE, 56)), item>>,
      <<address_of_pts(pts_address(item, TRUE, 56)), item>>,
      <<address_of_pts(pts_address(item, FALSE, 0)), item>>,
      <<address_of_pts(pts_address(item, TRUE, 0)), item>>,
      <<address_of_key(item), item>> }

\* the table built by the loops of signed_by(address) from a key set; a
\* later item overwrites an earlier one with the same address
AddressTable(keys) ==
    LET entries == UNION { AddressEntries(k) : k \in keys }
        addrs == { e[1] : e \in entries }
    IN [a \in addrs |-> CHOOSE k \in keys :
                           /\ <<a, k>> \in entries
                           /\ \A k2 \in keys : <<a, k2>> \in entries => k2 <= k]

(***************************************************************************)
(* Authorities.                                                            *)
(***************************************************************************)
Authority(thr, ka, aa, ca) ==
    [weight_threshold |-> thr, key_auths |-> ka, address_auths |-> aa,
     account_auths |-> ca]

nullptr == <<>>
Ptr(auth) == <<auth>>

get_active(id) == IF id \in DOMAIN active_auths THEN Ptr(active_auths[id]) ELSE nullptr
get_owner(id) == IF id \in DOMAIN owner_auths THEN Ptr(owner_auths[id]) ELSE nullptr
get_custom(account, op) ==
    IF <<account, op.id>> \in DOMAIN custom_auths THEN custom_auths[<<account, op.id>>]
    ELSE <<>>

(***************************************************************************)
(* sign_state                                                              *)
(***************************************************************************)
sign_state_ctor(sigs, allow_owner, max_recursion_depth, keys) ==
    [ provided_signatures |-> [k \in sigs |-> FALSE],
      approved_by |-> {GRAPHENE_TEMP_ACCOUNT},
      available_keys |-> keys,
      allow_non_immediate_owner |-> allow_owner,
      max_recursion |-> max_recursion_depth,
      available_address_sigs |-> <<>>,
      provided_address_sigs |-> <<>>,
      \* the process was stopped by a trap on undefined behaviour
      aborted |-> FALSE,
      \* history: keys matched in an authority check that returned true
      credited |-> {},
      \* history: greatest depth argument of a check_authority call
      deepest |-> 0 ]

\* provided_signatures[k] = true
Consume(s, k) == [s EXCEPT !.provided_signatures = Put(@, k, TRUE)]

\* bool signed_by( const public_key_type& k )
\* returns [ret, s, key]: the result, the sign_state, the key looked at
signed_by_key(s, k) ==
    IF k \notin DOMAIN s.provided_signatures
    THEN IF k \in s.available_keys
         THEN [ret |-> TRUE, s |-> Consume(s, k), key |-> k]
         ELSE [ret |-> FALSE, s |-> s, key |-> k]
    ELSE [ret |-> TRUE, s |-> Consume(s, k), key |-> k]

\* the lazy construction of the two address tables
BuildAddressTables(s) ==
    IF s.available_address_sigs = <<>>
    THEN [s EXCEPT !.available_address_sigs = <<AddressTable(s.available_keys)>>,
                   !.provided_address_sigs =
                       <<AddressTable(DOMAIN s.provided_signatures)>>]
    ELSE s

\* itr->second with itr == provided_address_sigs->end(): undefined behaviour
DerefEnd(s) ==
    IF build = "trap"
    THEN [ret |-> FALSE, s |-> [s EXCEPT !.aborted = TRUE], key |-> GarbageKey]
    ELSE [ret |-> TRUE, s |-> Consume(s, GarbageKey), key |-> GarbageKey]

\* signed_by( const address& a ) once the tables exist
LookupAddress(s, a) ==
    IF a \notin DOMAIN s.provided_address_sigs[1]
    THEN IF a \in DOMAIN s.available_address_sigs[1]
         THEN IF s.available_address_sigs[1][a] \in s.available_keys
              THEN [ret |-> TRUE, s |-> Consume(s, s.available_address_sigs[1][a]),
                    key |-> s.available_address_sigs[1][a]]
              ELSE [ret |-> FALSE, s |-> s, key |-> s.available_address_sigs[1][a]]
         ELSE DerefEnd(s)
    ELSE [ret |-> TRUE, s |-> Consume(s, s.provided_address_sigs[1][a]),
          key |-> s.provided_address_sigs[1][a]]

\* bool signed_by( const address& a )
signed_by_address(s, a) == LookupAddress(BuildAddressTables(s), a)

(***************************************************************************)
(* check_authority.  A loop state st is [s, total, done, matched]: the     *)
(* sign_state, total_weight, whether the loop returned true, and the keys  *)
(* signed_by matched in this call.  total_weight is a uint32 and weights   *)
(* are uint16: the sums of this model stay far below 2^32.                 *)
(***************************************************************************)
LoopStart(s) == [s |-> s, total |-> 0, done |-> FALSE, matched |-> {}]

\* AddWeight adding one more than the weight of the entry
AddWeightAndOne(st, s, w, thr, keys) ==
    [s |-> s, total |-> st.total + w + 1, done |-> st.total + w + 1 >= thr,
     matched |-> st.matched \cup keys]

\* total_weight += w; if( total_weight >= auth.weight_threshold ) return true;
AddWeight(st, s, w, thr, keys) ==
    [s |-> s, total |-> st.total + w, done |-> st.total + w >= thr,
     matched |-> st.matched \cup keys]

\* if( signed_by( k.first ) ) { total_weight += k.second; ... }
Signed(st, r, w, thr) ==
    IF r.ret THEN AddWeight(st, r.s, w, thr, {r.key}) ELSE [st EXCEPT !.s = r.s]

\* for( const auto& k : auth.key_auths ) ...
RECURSIVE key_auths_loop(_, _, _)
key_auths_loop(st, auth, todo) ==
    IF todo = <<>> \/ st.done \/ st.s.aborted THEN st
    ELSE key_auths_loop(Signed(st, signed_by_key(st.s, Head(todo)),
                               auth.key_auths[Head(todo)], auth.weight_threshold),
                        auth, Tail(todo))

\* for( const auto& k : auth.address_auths ) ...
RECURSIVE address_auths_loop(_, _, _)
address_auths_loop(st, auth, todo) ==
    IF todo = <<>> \/ st.done \/ st.s.aborted THEN st
    ELSE address_auths_loop(Signed(st, signed_by_address(st.s, Head(todo)),
                                   auth.address_auths[Head(todo)],
                                   auth.weight_threshold),
                            auth, Tail(todo))

RECURSIVE check_authority(_, _, _)

\* ... || ( allow_non_immediate_owner && check_authority( get_owner( a ), depth ) )
\* OrAllowedOwner without the test of allow_non_immediate_owner
OrOwnerAlways(r, a, depth) ==
    IF r.ret \/ r.s.aborted THEN r
    ELSE check_authority(r.s, get_owner(a), depth)

OrAllowedOwner(r, a, depth) ==
    IF r.ret \/ r.s.aborted \/ ~r.s.allow_non_immediate_owner THEN r
    ELSE check_authority(r.s, get_owner(a), depth)

\* check_authority( get_active( a ), depth ) ||
\*    ( allow_non_immediate_owner && check_authority( get_owner( a ), depth ) )
active_or_allowed_owner(s, a, depth) ==
    OrAllowedOwner(check_authority(s, get_active(a), depth), a, depth)

\* if( check_authority( ... ) ) { approved_by.insert( a.first ); total_weight += ... }
Delegated(st, r, a, w, thr) ==
    IF r.ret
    THEN AddWeight(st, [r.s EXCEPT !.approved_by = @ \cup {a}], w, thr, {})
    ELSE [st EXCEPT !.s = r.s]

\* the depth test passing one level late
DepthExhaustedLate(s, depth) == depth = s.max_recursion + 1

\* if( depth == max_recursion ) continue;
DepthExhausted(s, depth) == depth = s.max_recursion

\* account_auth with the depth test one level late
account_auth_one_deeper(st, auth, a, depth) ==
    IF a \notin st.s.approved_by
    THEN IF depth = st.s.max_recursion + 1
         THEN st
         ELSE Delegated(st, active_or_allowed_owner(st.s, a, depth + 1), a,
                        auth.account_auths[a], auth.weight_threshold)
    ELSE AddWeight(st, st.s, auth.account_auths[a], auth.weight_threshold, {})

\* the body of for( const auto& a : auth.account_auths )
account_auth(st, auth, a, depth) ==
    IF a \notin st.s.approved_by
    THEN IF DepthExhausted(st.s, depth)
         THEN st
         ELSE Delegated(st, active_or_allowed_owner(st.s, a, depth + 1), a,
                        auth.account_auths[a], auth.weight_threshold)
    ELSE AddWeight(st, st.s, auth.account_auths[a], auth.weight_threshold, {})

\* for( const auto& a : auth.account_auths ) ...
RECURSIVE account_auths_loop(_, _, _, _)
account_auths_loop(st, auth, todo, depth) ==
    IF todo = <<>> \/ st.done \/ st.s.aborted THEN st
    ELSE account_auths_loop(account_auth(st, auth, Head(todo), depth), auth,
                            Tail(todo), depth)

\* return total_weight >= auth.weight_threshold; (or the return true of a loop)
Returned(st, auth) ==
    IF st.s.aborted THEN [ret |-> FALSE, s |-> st.s]
    ELSE IF st.done \/ st.total >= auth.weight_threshold
    THEN [ret |-> TRUE, s |-> [st.s EXCEPT !.credited = @ \cup st.matched]]
    ELSE [ret |-> FALSE, s |-> st.s]

Entered(s, depth) == [s EXCEPT !.deepest = IF depth > @ THEN depth ELSE @]

\* bool check_authority( const authority* au, uint32_t depth = 0 )
\* returns [ret, s]
check_authority(s, au, depth) ==
    IF s.aborted \/ au = nullptr THEN [ret |-> FALSE, s |-> s]
    ELSE Returned(
             account_auths_loop(
                 address_auths_loop(
                     key_auths_loop(LoopStart(Entered(s, depth)), au[1],
                                    Ascending(DOMAIN au[1].key_auths)),
                     au[1], Ascending(DOMAIN au[1].address_auths)),
                 au[1], Ascending(DOMAIN au[1].account_auths), depth),
             au[1])

\* bool check_authority( account_id_type id )
check_authority_account(s, id) ==
    IF id \in s.approved_by THEN [ret |-> TRUE, s |-> s]
    ELSE active_or_allowed_owner(s, id, 0)

\* bool remove_unused_signatures()
Unused(s) == { k \in DOMAIN s.provided_signatures : ~s.provided_signatures[k] }

\* a variant that erases every entry once one is unused
remove_all_signatures(s) ==
    [ret |-> Unused(s) # {},
     s |-> [s EXCEPT !.provided_signatures =
                         IF Unused(s) # {} THEN EmptyMap ELSE @]]

remove_unused_signatures(s) ==
    [ret |-> Unused(s) # {},
     s |-> [s EXCEPT !.provided_signatures = [k \in DOMAIN @ \ Unused(s) |-> @[k]]]]

(***************************************************************************)
(* Operations.  An operation is known to this code only through            *)
(* operation_get_required_authorities: it is modelled by what that         *)
(* function derives from it.  required_auths are the accounts a custom     *)
(* operation names, left out when ignore_custom_operation_required_auths   *)
(* is set.                                                                 *)
(***************************************************************************)
Operation(id, active, owner, other, required_auths) ==
    [id |-> id, active |-> active, owner |-> owner, other |-> other,
     required_auths |-> required_auths]

\* operation_get_required_authorities( op, active, owner, other, ignore ):
\* adds to the three containers it is given
operation_get_required_authorities(op, active, owner, other, ignore_custom) ==
    [active |-> active \cup op.active
                  \cup (IF ignore_custom THEN {} ELSE op.required_auths),
     owner |-> owner \cup op.owner,
     other |-> other \o op.other]

\* for( const auto& op : operations ) operation_get_required_authorities( ... )
RECURSIVE get_required_authorities_loop(_, _, _)
get_required_authorities_loop(acc, ops, ignore_custom) ==
    IF ops = <<>> THEN acc
    ELSE get_required_authorities_loop(
             operation_get_required_authorities(Head(ops), acc.active, acc.owner,
                                                acc.other, ignore_custom),
             Tail(ops), ignore_custom)

\* for( const auto& account : owner ) active.erase( account );
EraseOwners(acc) == [acc EXCEPT !.active = @ \ acc.owner]

\* void transaction::get_required_authorities( active, owner, other, ignore )
get_required_authorities(ops, ignore_custom) ==
    EraseOwners(get_required_authorities_loop(
                    [active |-> {}, owner |-> {}, other |-> <<>>], ops, ignore_custom))

(***************************************************************************)
(* verify_authority.  Its steps return [kind, s]: "ok" or the exception    *)
(* thrown ("crash" when a trap stopped the process), and the sign_state.   *)
(***************************************************************************)
Ok(s) == [kind |-> "ok", s |-> s]

\* an exception whose message arguments dereference the given pointers:
\* a null pointer among them is undefined behaviour
Throw(kind, s, ptrs) ==
    IF nullptr \in ptrs /\ build = "trap"
    THEN [kind |-> "crash", s |-> s]
    ELSE [kind |-> kind, s |-> s]

\* GRAPHENE_ASSERT( r.ret, kind, ..., ptrs dereferenced )
GRAPHENE_ASSERT(r, kind, ptrs) ==
    IF r.s.aborted THEN [kind |-> "crash", s |-> r.s]
    ELSE IF ~r.ret THEN Throw(kind, r.s, ptrs)
    ELSE Ok(r.s)

\* the lambda approved_by_custom_authority
RECURSIVE viable_custom_auths_loop(_, _)
NextCustomAuth(r, rest) ==
    IF r.ret THEN r ELSE viable_custom_auths_loop(r.s, rest)

viable_custom_auths_loop(s, auths) ==
    IF auths = <<>> \/ s.aborted THEN [ret |-> FALSE, s |-> s]
    ELSE NextCustomAuth(check_authority(s, Ptr(Head(auths)), 0), Tail(auths))

approved_by_custom_authority(s, account, op) ==
    viable_custom_auths_loop(s, get_custom(account, op))

\* while ( itr != operation_required_active.end() ) ...
\* acc is [s, kept]: the sign_state and the accounts not erased
RECURSIVE operation_required_active_loop(_, _, _)
EraseIfApproved(acc, r, account) ==
    [s |-> r.s, kept |-> IF r.ret THEN acc.kept ELSE acc.kept \cup {account}]

operation_required_active_loop(acc, op, todo) ==
    IF todo = <<>> \/ acc.s.aborted THEN acc
    ELSE operation_required_active_loop(
             EraseIfApproved(acc, approved_by_custom_authority(acc.s, Head(todo), op),
                             Head(todo)),
             op, Tail(todo))

\* the body of for( const auto& op : ops )
\* st is [s, required_active, required_owner, other]
CustomApproved(st, req, op) ==
    [custom |-> operation_required_active_loop([s |-> st.s, kept |-> {}], op,
                                               Ascending(req.active)),
     req |-> req]

\* Collected erasing an approved account from the transaction's set
CollectedErasingFromAll(st, c) ==
    [s |-> c.custom.s,
     required_active |-> (st.required_active \cup c.custom.kept)
                             \ (c.req.active \ c.custom.kept),
     required_owner |-> c.req.owner,
     other |-> c.req.other]

Collected(st, c) ==
    [s |-> c.custom.s,
     required_active |-> st.required_active \cup c.custom.kept,
     required_owner |-> c.req.owner,
     other |-> c.req.other]

verify_op(st, op, ignore_custom) ==
    Collected(st, CustomApproved(st,
                      operation_get_required_authorities(
                          op, {}, st.required_owner, st.other, ignore_custom),
                      op))

\* for( const auto& op : ops ) ...
RECURSIVE ops_loop(_, _, _)
ops_loop(st, ops, ignore_custom) ==
    IF ops = <<>> \/ st.s.aborted THEN st
    ELSE ops_loop(verify_op(st, Head(ops), ignore_custom), Tail(ops), ignore_custom)

\* for( const auto& auth : other ) GRAPHENE_ASSERT( s.check_authority(&auth), ... )
RECURSIVE other_loop(_, _)
NextOther(x, rest) == IF x.kind # "ok" THEN x ELSE other_loop(x.s, rest)

other_loop(s, other) ==
    IF other = <<>> THEN Ok(s)
    ELSE NextOther(GRAPHENE_ASSERT(check_authority(s, Ptr(Head(other)), 0),
                                   "tx_missing_other_auth", {}),
                   Tail(other))

\* for( auto id : required_owner ) GRAPHENE_ASSERT( owner_approvals.find(id) != ... )
RECURSIVE required_owner_loop(_, _, _)
NextOwner(x, rest, owner_approvals) ==
    IF x.kind # "ok" THEN x ELSE required_owner_loop(x.s, rest, owner_approvals)

\* required_owner_loop checking every account, pre-approved or not
required_owner_loop_all(s, todo, owner_approvals) ==
    IF todo = <<>> THEN Ok(s)
    ELSE NextOwner(GRAPHENE_ASSERT(check_authority(s, get_owner(Head(todo)), 0),
                                   "tx_missing_owner_auth", {get_owner(Head(todo))}),
                   Tail(todo), owner_approvals)

\* for( auto id : required_owner ) GRAPHENE_ASSERT( owner_approvals.find( id ) != ... ||
\*    s.check_authority( get_owner( id ) ), tx_missing_owner_auth, ... )
required_owner_loop(s, todo, owner_approvals) ==
    IF todo = <<>> THEN Ok(s)
    ELSE IF Head(todo) \in owner_approvals
    THEN required_owner_loop(s, Tail(todo), owner_approvals)
    ELSE NextOwner(GRAPHENE_ASSERT(check_authority(s, get_owner(Head(todo)), 0),
                                   "tx_missing_owner_auth", {get_owner(Head(todo))}),
                   Tail(todo), owner_approvals)

\* s.check_authority( id ) || s.check_authority( get_owner( id ) )
OrOwner(r, id) ==
    IF r.ret \/ r.s.aborted THEN r ELSE check_authority(r.s, get_owner(id), 0)

active_or_owner(s, id) == OrOwner(check_authority_account(s, id), id)

\* for( auto id : required_active ) GRAPHENE_ASSERT( s.check_authority(id) || ... )
RECURSIVE required_active_loop(_, _)
NextActive(x, rest) == IF x.kind # "ok" THEN x ELSE required_active_loop(x.s, rest)

required_active_loop(s, todo) ==
    IF todo = <<>> THEN Ok(s)
    ELSE NextActive(GRAPHENE_ASSERT(active_or_owner(s, Head(todo)),
                                    "tx_missing_active_auth",
                                    {get_active(Head(todo)), get_owner(Head(todo))}),
                    Tail(todo))

\* GRAPHENE_ASSERT( !s.remove_unused_signatures(), tx_irrelevant_sig, ... )
NoUnused(u) == IF u.ret THEN [kind |-> "tx_irrelevant_sig", s |-> u.s] ELSE Ok(u.s)

AfterActive(a) ==
    IF a.kind # "ok" THEN a ELSE NoUnused(remove_unused_signatures(a.s))

AfterOwner(w, o) ==
    IF w.kind # "ok" THEN w
    ELSE AfterActive(required_active_loop(w.s, Ascending(o.required_active)))

AfterOther(x, o, owner_approvals) ==
    IF x.kind # "ok" THEN x
    ELSE AfterOwner(required_owner_loop(x.s, Ascending(o.required_owner),
                                        owner_approvals), o)

\* AfterOps without the committee assertion
AfterOpsAnyCommittee(o, allow_committee, owner_approvals) ==
    IF o.s.aborted THEN [kind |-> "crash", s |-> o.s]
    ELSE AfterOther(other_loop(o.s, o.other), o, owner_approvals)

\* if( !allow_committee ) GRAPHENE_ASSERT( required_active.find( ... ) == ... )
AfterOps(o, allow_committee, owner_approvals) ==
    IF o.s.aborted THEN [kind |-> "crash", s |-> o.s]
    ELSE IF ~allow_committee /\ GRAPHENE_COMMITTEE_ACCOUNT \in o.required_active
    THEN [kind |-> "invalid_committee_approval", s |-> o.s]
    ELSE AfterOther(other_loop(o.s, o.other), o, owner_approvals)

\* for( auto& id : active_aprovals ) s.approved_by.insert( id ); (and owner_approvals)
Approve(s, ids) == [s EXCEPT !.approved_by = @ \cup ids]

\* void verify_authority( ops, sigs, get_active, get_owner, get_custom, ... )
verify_authority(ops, sigs, allow_non_immediate_owner, ignore_custom_operation_required_auths, max_recursion_depth, allow_committee, active_aprovals, owner_approvals) ==
    AfterOps(ops_loop([s |-> Approve(sign_state_ctor(sigs, allow_non_immediate_owner,
                                                     max_recursion_depth, {}),
                                     active_aprovals \cup owner_approvals),
                       required_active |-> {}, required_owner |-> {},
                       other |-> <<>>],
                      ops, ignore_custom_operation_required_auths),
             allow_committee, owner_approvals)

(***************************************************************************)
(* transaction.  The header fields a signature covers, and the two         *)
(* functions that set them.  A block id is [hash0, hash1]: the first two   *)
(* 32-bit words of its hash.                                               *)
(***************************************************************************)
\* a transaction as its constructor leaves it
Transaction(ops, precomputable) ==
    [ref_block_num |-> 0, ref_block_prefix |-> 0, expiration |-> 0,
     operations |-> ops, signatures |-> <<>>, signees |-> {},
     precomputable |-> precomputable]

\* boost::endian::endian_reverse of a 32-bit value: its four bytes in the
\* opposite order
endian_reverse(v) ==
    ((v % 256) * 16777216) + (((v \div 256) % 256) * 65536)
        + (((v \div 65536) % 256) * 256) + (v \div 16777216)

\* void transaction::set_expiration( fc::time_point_sec expiration_time )
set_expiration(t, expiration_time) == [t EXCEPT !.expiration = expiration_time]

\* void transaction::set_reference_block( const block_id_type& reference_block )
\* ref_block_num is a uint16_t: the assignment keeps the low 16 bits
set_reference_block(t, reference_block) ==
    [t EXCEPT !.ref_block_num = endian_reverse(reference_block.hash0) % 65536,
              !.ref_block_prefix = reference_block.hash1]

\* digest_type transaction::sig_digest( chain_id ): the hash of the chain id
\* and the packed transaction, modelled by the fields it packs; every call
\* of this model passes the same chain id
sig_digest(t) ==
    [ref_block_num |-> t.ref_block_num, ref_block_prefix |-> t.ref_block_prefix,
     expiration |-> t.expiration, operations |-> t.operations]

(***************************************************************************)
(* signed_transaction.  A signature is [key, digest]: the key that made it *)
(* and the digest it was made over.  fc::ecc::public_key( sig, d )         *)
(* recovers that key when d is that digest; against any other digest it    *)
(* recovers a key nobody holds, another one for each signature and digest. *)
(***************************************************************************)
Signature(key, digest) == [key |-> key, digest |-> digest]

\* a number for a digest, injective on the header values of this model
DigestCode(d) ==
    (d.ref_block_num % 2) + 2 * (d.ref_block_prefix % 2) + 4 * d.expiration
DigestCodes == 4 * (MaxExpiration + 1)

\* the key a signature recovers to against a digest it was not made over
StrangerKey(sig, d) ==
    GarbageKey + 1 + (sig.key - 1)
        + NKeys * (DigestCode(sig.digest) + DigestCodes * DigestCode(d))

\* fc::ecc::public_key( sig, d )
recover_public_key(sig, d) ==
    IF sig.digest = d THEN sig.key ELSE StrangerKey(sig, d)

\* key.sign_compact( h )
sign_compact(key, h) == Signature(key, h)

\* const signature_type& signed_transaction::sign( key, chain_id )
sign(t, key) == [t EXCEPT !.signatures = Append(@, sign_compact(key, sig_digest(t)))]

\* const flat_set<public_key_type>& signed_transaction::get_signature_keys( chain_id )
\* returns [kind, keys]
RECURSIVE get_signature_keys_loop(_, _, _)

\* get_signature_keys_loop taking a repeated key as already inserted
get_signature_keys_loop_lenient(res, sigs, d) ==
    IF sigs = <<>> THEN [kind |-> "ok", keys |-> res]
    ELSE get_signature_keys_loop(res \cup {recover_public_key(Head(sigs), d)},
                                 Tail(sigs), d)

\* for( const auto& sig : signatures ) GRAPHENE_ASSERT( result.insert( ... ).second, ... )
get_signature_keys_loop(res, sigs, d) ==
    IF sigs = <<>> THEN [kind |-> "ok", keys |-> res]
    ELSE IF recover_public_key(Head(sigs), d) \in res
    THEN [kind |-> "tx_duplicate_sig", keys |-> {}]
    ELSE get_signature_keys_loop(res \cup {recover_public_key(Head(sigs), d)},
                                 Tail(sigs), d)

get_signature_keys(t) == get_signature_keys_loop({}, t.signatures, sig_digest(t))

\* precomputable_transaction::get_signature_keys( chain_id ): the cached
\* _signees unless they are empty
precomputable_get_signature_keys(t) ==
    IF t.signees = {} THEN get_signature_keys(t)
    ELSE [kind |-> "ok", keys |-> t.signees]

\* the virtual call get_signature_keys( chain_id ) on this object
virtual_get_signature_keys(t) ==
    IF t.precomputable THEN precomputable_get_signature_keys(t)
    ELSE get_signature_keys(t)

\* _signees = std::move( result ), which an exception does not reach
Cached(t, sk) == IF sk.kind = "ok" THEN [t EXCEPT !.signees = sk.keys] ELSE t

\* for( const auto& auth : other ) s.check_authority( &auth );
RECURSIVE required_other_search(_, _)
required_other_search(s, other) ==
    IF other = <<>> \/ s.aborted THEN s
    ELSE required_other_search(check_authority(s, Ptr(Head(other)), 0).s, Tail(other))

\* for( auto& owner : required_owner ) s.check_authority( get_owner( owner ) );
RECURSIVE required_owner_search(_, _)
required_owner_search(s, todo) ==
    IF todo = <<>> \/ s.aborted THEN s
    ELSE required_owner_search(check_authority(s, get_owner(Head(todo)), 0).s,
                               Tail(todo))

\* for( auto& active : required_active )
\*    s.check_authority( active ) || s.check_authority( get_owner( active ) );
RECURSIVE required_active_search(_, _)
required_active_search(s, todo) ==
    IF todo = <<>> \/ s.aborted THEN s
    ELSE required_active_search(active_or_owner(s, Head(todo)).s, Tail(todo))

\* RequiredResult without the test against the signature keys
RequiredResultWithSigned(s, available_keys, signature_keys) ==
    IF s.aborted THEN [kind |-> "crash", keys |-> {}]
    ELSE [kind |-> "ok",
          keys |-> { k \in DOMAIN remove_unused_signatures(s).s.provided_signatures :
                        k \in available_keys }]

\* the keys of provided_signatures that are available and were not signatures
RequiredResult(s, available_keys, signature_keys) ==
    IF s.aborted THEN [kind |-> "crash", keys |-> {}]
    ELSE [kind |-> "ok",
          keys |-> { k \in DOMAIN remove_unused_signatures(s).s.provided_signatures :
                        k \in available_keys /\ k \notin signature_keys }]

RequiredSearch(req, sk, available_keys, allow_non_immediate_owner, max_recursion_depth) ==
    IF sk.kind # "ok" THEN sk
    ELSE RequiredResult(
             required_active_search(
                 required_owner_search(
                     required_other_search(
                         sign_state_ctor(sk.keys, allow_non_immediate_owner,
                                         max_recursion_depth, available_keys),
                         req.other),
                     Ascending(req.owner)),
                 Ascending(req.active)),
             available_keys, sk.keys)

\* set<public_key_type> signed_transaction::get_required_signatures( ... )
\* returns [kind, keys]
get_required_signatures(t, available_keys, allow_non_immediate_owner, ignore_custom_operation_required_authorities, max_recursion_depth) ==
    RequiredSearch(get_required_authorities(
                       t.operations, ignore_custom_operation_required_authorities),
                   virtual_get_signature_keys(t), available_keys,
                   allow_non_immediate_owner, max_recursion_depth)

\* for( const public_key_type& k : s ) { result.erase( k ); try { verify_authority ...
\* allow_committee is the default argument of verify_authority's declaration
RECURSIVE minimize_loop(_, _, _, _, _, _, _)

\* Reverified leaving a key erased whose removal made verify_authority fail
ReverifiedKeepsErased(v, res, todo, ops, allow_non_immediate_owner, ignore_custom, max_recursion, allow_committee) ==
    IF v.kind \in {"ok", "tx_missing_owner_auth", "tx_missing_active_auth",
                   "tx_missing_other_auth"}
    THEN minimize_loop(res \ {Head(todo)}, Tail(todo), ops, allow_non_immediate_owner,
                       ignore_custom, max_recursion, allow_committee)
    ELSE [kind |-> v.kind, keys |-> {}]

\* Reverified restoring the key after any exception
ReverifiedCatchesAll(v, res, todo, ops, allow_non_immediate_owner, ignore_custom, max_recursion, allow_committee) ==
    IF v.kind = "ok"
    THEN minimize_loop(res \ {Head(todo)}, Tail(todo), ops, allow_non_immediate_owner,
                       ignore_custom, max_recursion, allow_committee)
    ELSE minimize_loop(res, Tail(todo), ops, allow_non_immediate_owner,
                       ignore_custom, max_recursion, allow_committee)

Reverified(v, res, todo, ops, allow_non_immediate_owner, ignore_custom, max_recursion, allow_committee) ==
    IF v.kind = "ok"
    THEN minimize_loop(res \ {Head(todo)}, Tail(todo), ops, allow_non_immediate_owner,
                       ignore_custom, max_recursion, allow_committee)
    ELSE IF v.kind \in {"tx_missing_owner_auth", "tx_missing_active_auth",
                        "tx_missing_other_auth"}
    THEN minimize_loop(res, Tail(todo), ops, allow_non_immediate_owner,
                       ignore_custom, max_recursion, allow_committee)
    ELSE [kind |-> v.kind, keys |-> {}]

minimize_loop(res, todo, ops, allow_non_immediate_owner, ignore_custom, max_recursion, allow_committee) ==
    IF todo = <<>> THEN [kind |-> "ok", keys |-> res]
    ELSE Reverified(verify_authority(ops, res \ {Head(todo)},
                                     allow_non_immediate_owner, ignore_custom,
                                     max_recursion, allow_committee, {}, {}),
                    res, todo, ops, allow_non_immediate_owner, ignore_custom,
                    max_recursion, allow_committee)

Minimized(s, ops, allow_non_immediate_owner, ignore_custom, max_recursion, allow_committee) ==
    IF s.kind # "ok" THEN s
    ELSE minimize_loop(s.keys, Ascending(s.keys), ops, allow_non_immediate_owner,
                       ignore_custom, max_recursion, allow_committee)

\* set<public_key_type> signed_transaction::minimize_required_signatures( ... )
\* returns [kind, keys]
minimize_required_signatures(t, available_keys, allow_non_immediate_owner, ignore_custom_operation_required_auths, max_recursion, allow_committee) ==
    Minimized(get_required_signatures(t, available_keys, allow_non_immediate_owner,
                                      ignore_custom_operation_required_auths,
                                      max_recursion),
              t.operations, allow_non_immediate_owner,
              ignore_custom_operation_required_auths, max_recursion, allow_committee)

\* void signed_transaction::verify_authority( chain_id, get_active, ... )
VerifiedWith(sk, ops, allow_non_immediate_owner, ignore_custom, max_recursion, allow_committee) ==
    IF sk.kind # "ok" THEN [kind |-> sk.kind]
    ELSE [kind |-> verify_authority(ops, sk.keys, allow_non_immediate_owner,
                                    ignore_custom, max_recursion, allow_committee,
                                    {}, {}).kind]

signed_transaction_verify_authority(t, allow_non_immediate_owner, ignore_custom_operation_required_auths, max_recursion, allow_committee) ==
    VerifiedWith(virtual_get_signature_keys(t), t.operations,
                 allow_non_immediate_owner, ignore_custom_operation_required_auths,
                 max_recursion, allow_committee)

(***************************************************************************)
(* The chain states and transactions the model starts from.                *)
(***************************************************************************)
X == GRAPHENE_TEMP_ACCOUNT + 1
Y == GRAPHENE_TEMP_ACCOUNT + 2

Weights == 1..MaxWeight
Thresholds == 0..(MaxWeight + 2)

\* all maps from a subset of S to the weights W
WeightMaps(S, W) == UNION { [K -> W] : K \in SUBSET S }

\* an authority nothing satisfies (threshold above the sum of its weights)
Unsatisfiable == Authority(1, EmptyMap, EmptyMap, EmptyMap)
KeyAuthority(thr, ka) == Authority(thr, ka, EmptyMap, EmptyMap)
OneKey(k) == KeyAuthority(1, [x \in {k} |-> 1])

RequireActive(id, a) == Operation(id, {a}, {}, <<>>, {})
RequireOwner(id, a) == Operation(id, {}, {a}, <<>>, {})
RequireOther(id, auth) == Operation(id, {}, {}, <<auth>>, {})

NoCustom == [x \in {} |-> <<>>]

Scenario(active, owner, custom, ops, builds) ==
    [active |-> active, owner |-> owner, custom |-> custom, ops |-> ops,
     builds |-> builds]

\* Undefined behaviour needs an address entry or an account without an
\* authority: where there is neither, the two builds behave alike and one
\* is explored.
OneBuild == {"lenient"}

\* key authorities: X is any weighted key authority, Y is one key
KeyScenarios ==
    { Scenario([a \in {X, Y} |-> IF a = X THEN ax ELSE OneKey(NKeys)],
               [a \in {X, Y} |-> Unsatisfiable],
               NoCustom, ops, OneBuild) :
        ax \in { KeyAuthority(thr, ka) : thr \in Thresholds,
                                          ka \in WeightMaps(Keys, Weights) },
        ops \in { <<RequireActive(1, X)>>,
                  <<RequireActive(1, X), RequireActive(2, Y)>> } }

\* delegation between X and Y, self-reference and mutual delegation included
DelegationScenarios ==
    { Scenario([a \in {X, Y} |-> IF a = X THEN ax ELSE ay],
               own, NoCustom, <<RequireActive(1, X)>>, OneBuild) :
        ax \in { Authority(thr, ka, EmptyMap, ca) :
                    thr \in 1..2, ka \in WeightMaps({1}, {1}),
                    ca \in { [a \in {Y} |-> 1], [a \in {X, Y} |-> 1] } },
        ay \in { Authority(thr, [k \in {NKeys} |-> 1], EmptyMap, ca) :
                    thr \in 1..2, ca \in WeightMaps({X}, {1}) },
        own \in { [a \in {X, Y} |-> Unsatisfiable],
                   [a \in {X, Y} |-> IF a = X THEN OneKey(1) ELSE OneKey(NKeys)] } }

\* a delegation chain X0 -> X1 -> ... -> Xn whose last account is one key
ChainAccount(i) == GRAPHENE_TEMP_ACCOUNT + 1 + i
ChainActive(n) ==
    [a \in { ChainAccount(i) : i \in 0..n } |->
        IF a = ChainAccount(n) THEN OneKey(1)
        ELSE Authority(1, EmptyMap, EmptyMap, [d \in {a + 1} |-> 1])]
ChainScenarios ==
    { Scenario(ChainActive(n),
               [a \in DOMAIN ChainActive(n) |-> Unsatisfiable],
               NoCustom, <<RequireActive(1, X)>>, OneBuild) :
        n \in 0..(MaxRecursion + 1) }
    \cup
    { Scenario(ChainActive(n),
               [a \in DOMAIN ChainActive(n) |->
                   IF a = X THEN ChainActive(n)[X] ELSE Unsatisfiable],
               NoCustom, <<RequireOwner(1, X)>>, OneBuild) :
        n \in 0..(MaxRecursion + 1) }
    \cup
    { Scenario(ChainActive(n),
               [a \in DOMAIN ChainActive(n) |-> Unsatisfiable],
               NoCustom, <<RequireOther(1, ChainActive(n)[X])>>, OneBuild) :
        n \in 0..(MaxRecursion + 1) }

\* address entries: an address of key 1 and an address of the last key
SomeAddresses == { address_of_key(1),
                   address_of_pts(pts_address(NKeys, TRUE, 56)) }
AddressScenarios ==
    { Scenario([a \in {X, Y} |-> IF a = X THEN ax ELSE OneKey(NKeys)],
               [a \in {X, Y} |-> Unsatisfiable],
               NoCustom, <<RequireActive(1, X)>>, Builds) :
        ax \in { Authority(thr, ka, aa, EmptyMap) :
                    thr \in Thresholds, ka \in WeightMaps({1}, {1}),
                    aa \in WeightMaps(SomeAddresses, {1}) \ {EmptyMap} } }

\* custom authorities of (X, operation 1); in the last scenario one that needs
\* no signature stands beside an active authority that needs two
CustomScenarios ==
    { Scenario([a \in {X} |-> KeyAuthority(2, [k \in Keys |-> 1])],
               [a \in {X} |-> Unsatisfiable],
               [p \in {<<X, 1>>} |-> <<KeyAuthority(0, EmptyMap)>>],
               <<RequireActive(1, X)>>, OneBuild) }
    \cup
    { Scenario([a \in {X} |-> ax], [a \in {X} |-> Unsatisfiable],
               [p \in {<<X, 1>>} |-> cu], ops, OneBuild) :
        ax \in {OneKey(1), Unsatisfiable},
        cu \in { <<OneKey(NKeys)>>,
                 <<KeyAuthority(2, [k \in {NKeys} |-> 1])>>,
                 <<KeyAuthority(2, [k \in {NKeys} |-> 1]), OneKey(1)>> },
        ops \in { <<RequireActive(1, X)>>,
                  <<RequireActive(1, X), RequireActive(2, X)>>,
                  <<RequireActive(2, X), RequireActive(1, X)>>,
                  <<Operation(1, {}, {}, <<>>, {X})>> } }

\* the committee account among the required accounts, with or without an
\* authority of its own
CommitteeScenarios ==
    { Scenario(act, [a \in {X} |-> Unsatisfiable], cu, ops, Builds) :
        act \in { [a \in {X} |-> OneKey(1)],
                  [a \in {X, GRAPHENE_COMMITTEE_ACCOUNT} |-> OneKey(1)] },
        cu \in { NoCustom,
                 [p \in {<<GRAPHENE_COMMITTEE_ACCOUNT, 1>>} |-> <<OneKey(NKeys)>>] },
        ops \in { <<RequireActive(1, GRAPHENE_COMMITTEE_ACCOUNT)>>,
                  <<RequireActive(1, X),
                    RequireActive(2, GRAPHENE_COMMITTEE_ACCOUNT)>>,
                  <<Operation(1, {GRAPHENE_COMMITTEE_ACCOUNT}, {},
                              <<OneKey(1)>>, {})>> } }

\* owner requirements: X's owner authority is absent, unsatisfiable or a key
OwnerScenarios ==
    { Scenario([a \in {X, Y} |-> OneKey(NKeys)], own, NoCustom, ops, Builds) :
        own \in { [a \in {Y} |-> Unsatisfiable],
                  [a \in {X, Y} |-> Unsatisfiable],
                  [a \in {X, Y} |-> IF a = X THEN OneKey(1) ELSE Unsatisfiable] },
        ops \in { <<RequireOwner(1, X)>>,
                  <<RequireOwner(1, X), RequireActive(2, Y)>>,
                  <<Operation(1, {X}, {X}, <<>>, {})>>,
                  <<Operation(1, {Y}, {X}, <<OneKey(1)>>, {})>> } }

\* a delegate reached twice: Y directly by an authority the operation names,
\* which key 1 also satisfies, and by X through the account after Y
ViaDelegate(d) == Authority(1, EmptyMap, EmptyMap, [a \in {d} |-> 1])
SharedDelegateScenarios ==
    { Scenario([a \in {X, Y, Y + 1} |->
                   IF a = X THEN ViaDelegate(Y + 1)
                   ELSE IF a = Y THEN OneKey(NKeys) ELSE ViaDelegate(Y)],
               [a \in {X, Y, Y + 1} |-> Unsatisfiable],
               NoCustom,
               <<Operation(1, {X}, {},
                           <<Authority(1, [k \in {1} |-> 1], EmptyMap,
                                       [a \in {Y} |-> 1])>>, {})>>,
               OneBuild) }

Scenarios == KeyScenarios \cup DelegationScenarios \cup ChainScenarios
             \cup AddressScenarios \cup CustomScenarios \cup CommitteeScenarios
             \cup OwnerScenarios \cup SharedDelegateScenarios

\* the transactions whose header is set after signing and which are also
\* taken as precomputable_transaction: one operation requiring X, a one-key
\* authority
FramingScenarios ==
    { sc \in KeyScenarios : sc.ops = <<RequireActive(1, X)>>
                               /\ sc.active[X] = OneKey(1) }

Framing(sc) == sc \in FramingScenarios

Init ==
    /\ \E sc \in Scenarios :
          /\ build \in sc.builds
          /\ active_auths = sc.active
          /\ owner_auths = sc.owner
          /\ custom_auths = sc.custom
          /\ \E precomputable \in (IF Framing(sc) THEN BOOLEAN ELSE {FALSE}) :
                trx = Transaction(sc.ops, precomputable)
    /\ pc = "idle"
    /\ call = [op |-> "none"]
    /\ result = [kind |-> "none"]
    /\ frames = <<>>
    /\ sstate = sign_state_ctor({}, FALSE, 0, {})
    /\ ret = "none"

chain == <<build, active_auths, owner_auths, custom_auths>>
stepvars == <<frames, sstate, ret>>

(***************************************************************************)
(* Actions: one per entry point.  A flag that only matters for some        *)
(* operations is varied where such an operation is present.                *)
(***************************************************************************)
ApprovalSets == { {}, {X} }
\* (active_aprovals, owner_approvals) of a verify_authority call
Approvals == { <<{}, {}>>, <<{X}, {}>>, <<{}, {X}>> }

RECURSIVE SeqToSet(_)
SeqToSet(q) == IF q = <<>> THEN {} ELSE {Head(q)} \cup SeqToSet(Tail(q))

IgnoreCustomChoices ==
    IF \E op \in SeqToSet(trx.operations) : op.required_auths # {}
    THEN BOOLEAN ELSE {FALSE}

AllowCommitteeChoices ==
    IF \E op \in SeqToSet(trx.operations) :
          GRAPHENE_COMMITTEE_ACCOUNT \in op.active \cup op.required_auths
    THEN BOOLEAN ELSE {FALSE}

\* the recursion bound is read where an authority names an account
RecursionChoices ==
    IF \E a \in DOMAIN active_auths : DOMAIN active_auths[a].account_auths # {}
    THEN 0..MaxRecursion ELSE {MaxRecursion}

\* the block ids and times the header is set from
ReferenceBlocks == { [hash0 |-> 16777216, hash1 |-> 1] }
Expirations == 1..MaxExpiration

\* the chain state and transaction are those of a framing scenario
Framed ==
    \E sc \in FramingScenarios :
        /\ active_auths = sc.active /\ owner_auths = sc.owner
        /\ custom_auths = sc.custom /\ trx.operations = sc.ops

Called(c, r) ==
    /\ pc = "idle"
    /\ pc' = "returned"
    /\ call' = c
    /\ result' = r
    /\ UNCHANGED stepvars

\* const signature_type& signed_transaction::sign( key, chain_id )
Sign(key) ==
    /\ pc = "idle"
    /\ Len(trx.signatures) < MaxSigs
    \* signatures are attached in the order of their keys (the recovered
    \* keys form a set, so other orders give the same calls), and none
    \* after a duplicate
    /\ trx.signatures # <<>> => trx.signatures[Len(trx.signatures)].key <= key
    /\ get_signature_keys(trx).kind = "ok"
    /\ trx' = sign(trx, key)
    /\ UNCHANGED <<chain, pc, call, result, stepvars>>

\* transaction::set_expiration( expiration_time )
SetExpiration(expiration_time) ==
    /\ pc = "idle" /\ Framed
    /\ trx' = set_expiration(trx, expiration_time)
    /\ UNCHANGED <<chain, pc, call, result, stepvars>>

\* transaction::set_reference_block( reference_block )
SetReferenceBlock(reference_block) ==
    /\ pc = "idle" /\ Framed
    /\ trx' = set_reference_block(trx, reference_block)
    /\ UNCHANGED <<chain, pc, call, result, stepvars>>

\* get_signature_keys( chain_id ) on the transaction: the function of
\* signed_transaction or, through the virtual call, of precomputable_transaction
GetSignatureKeys ==
    LET r == virtual_get_signature_keys(trx)
    IN /\ Called([op |-> "get_signature_keys"], r)
       /\ trx' = Cached(trx, r)
       /\ UNCHANGED chain

\* verify_authority( ops, sigs, ... ) on this transaction's operations and
\* the keys of its signatures
VerifyAuthority(allow_owner, ignore_custom, max_rec, allow_committee, active_aprovals, owner_approvals) ==
    LET sk == get_signature_keys(trx)
    IN /\ sk.kind = "ok"
       /\ Called([op |-> "verify_authority", sigs |-> sk.keys,
                  allow_non_immediate_owner |-> allow_owner,
                  ignore_custom |-> ignore_custom, max_recursion |-> max_rec,
                  allow_committee |-> allow_committee,
                  active_aprovals |-> active_aprovals,
                  owner_approvals |-> owner_approvals],
                 verify_authority(trx.operations, sk.keys, allow_owner,
                                  ignore_custom, max_rec, allow_committee,
                                  active_aprovals, owner_approvals))
       /\ UNCHANGED <<chain, trx>>

\* signed_transaction::verify_authority( chain_id, ... )
TrxVerifyAuthority(allow_owner, ignore_custom, max_rec, allow_committee) ==
    LET sk == virtual_get_signature_keys(trx)
    IN /\ Called([op |-> "signed_transaction::verify_authority",
                  allow_non_immediate_owner |-> allow_owner,
                  ignore_custom |-> ignore_custom, max_recursion |-> max_rec,
                  allow_committee |-> allow_committee],
                 signed_transaction_verify_authority(
                     trx, allow_owner, ignore_custom, max_rec, allow_committee))
       /\ trx' = Cached(trx, sk)
       /\ UNCHANGED chain

\* signed_transaction::get_required_signatures( chain_id, available_keys, ... )
GetRequiredSignatures(available_keys, allow_owner, ignore_custom, max_rec) ==
    LET sk == virtual_get_signature_keys(trx)
    IN /\ Called([op |-> "get_required_signatures",
                  available_keys |-> available_keys,
                  allow_non_immediate_owner |-> allow_owner,
                  ignore_custom |-> ignore_custom, max_recursion |-> max_rec],
                 get_required_signatures(trx, available_keys, allow_owner,
                                         ignore_custom, max_rec))
       /\ trx' = Cached(trx, sk)
       /\ UNCHANGED chain

\* signed_transaction::minimize_required_signatures( chain_id, available_keys, ... )
MinimizeRequiredSignatures(available_keys, allow_owner, ignore_custom, max_rec, allow_committee) ==
    LET sk == virtual_get_signature_keys(trx)
    IN /\ Called([op |-> "minimize_required_signatures",
                  available_keys |-> available_keys,
                  allow_non_immediate_owner |-> allow_owner,
                  ignore_custom |-> ignore_custom, max_recursion |-> max_rec,
                  allow_committee |-> allow_committee],
                 minimize_required_signatures(trx, available_keys, allow_owner,
                                              ignore_custom, max_rec,
                                              allow_committee))
       /\ trx' = Cached(trx, sk)
       /\ UNCHANGED chain

\* one sign_state::check_authority( au, depth ) on a sign_state built from the
\* transaction's signature keys, wallet keys and approved accounts
CheckAuthority(level, id, depth, available_keys, approved, allow_owner, max_rec) ==
    LET sk == get_signature_keys(trx)
        au == IF level = "active" THEN get_active(id) ELSE get_owner(id)
        s0 == sign_state_ctor(sk.keys, allow_owner, max_rec, available_keys)
        s1 == [s0 EXCEPT !.approved_by = @ \cup approved]
    IN /\ sk.kind = "ok"
       /\ Called([op |-> "check_authority", au |-> au, depth |-> depth,
                  sigs |-> sk.keys, available_keys |-> available_keys,
                  approved |-> approved,
                  allow_non_immediate_owner |-> allow_owner,
                  max_recursion |-> max_rec],
                 check_authority(s1, au, depth))
       /\ UNCHANGED <<chain, trx>>

\* the caller takes the result
Return ==
    /\ pc = "returned"
    /\ pc' = "idle"
    /\ call' = [op |-> "none"]
    /\ result' = [kind |-> "none"]
    /\ UNCHANGED <<chain, trx, stepvars>>

Next ==
    \/ \E key \in Keys : Sign(key)
    \/ \E expiration_time \in Expirations : SetExpiration(expiration_time)
    \/ \E reference_block \in ReferenceBlocks : SetReferenceBlock(reference_block)
    \/ GetSignatureKeys
    \/ \E allow_owner \in BOOLEAN, ignore_custom \in IgnoreCustomChoices,
          max_rec \in RecursionChoices, allow_committee \in AllowCommitteeChoices,
          ap \in Approvals :
          VerifyAuthority(allow_owner, ignore_custom, max_rec, allow_committee,
                          ap[1], ap[2])
    \/ \E allow_owner \in BOOLEAN, ignore_custom \in IgnoreCustomChoices,
          max_rec \in RecursionChoices, allow_committee \in AllowCommitteeChoices :
          TrxVerifyAuthority(allow_owner, ignore_custom, max_rec, allow_committee)
    \/ \E available_keys \in SUBSET Keys, allow_owner \in BOOLEAN,
          ignore_custom \in IgnoreCustomChoices, max_rec \in RecursionChoices :
          GetRequiredSignatures(available_keys, allow_owner, ignore_custom, max_rec)
    \/ \E available_keys \in SUBSET Keys, allow_owner \in BOOLEAN,
          ignore_custom \in IgnoreCustomChoices, max_rec \in RecursionChoices,
          allow_committee \in AllowCommitteeChoices :
          MinimizeRequiredSignatures(available_keys, allow_owner, ignore_custom,
                                     max_rec, allow_committee)
    \/ \E level \in {"active"}, id \in {X},
          max_rec \in {0, MaxRecursion}, available_keys \in {{}, Keys},
          approved \in ApprovalSets, allow_owner \in BOOLEAN :
          \E depth \in {0, max_rec} :
             CheckAuthority(level, id, depth, available_keys, approved, allow_owner,
                            max_rec)
    \/ Return

Spec == Init /\ [][Next]_vars

(***************************************************************************)
(* check_authority( au, depth ) statement by statement.  frames is the     *)
(* call stack: a frame holds the authority, the depth argument, the loop   *)
(* the call is in, the entries that loop has still to visit, total_weight  *)
(* and, while a nested call runs, which of the two nested calls it is.     *)
(***************************************************************************)
NewFrame(au, depth) ==
    [au |-> au[1], depth |-> depth, loop |-> "key_auths",
     todo |-> Ascending(DOMAIN au[1].key_auths), total_weight |-> 0,
     await |-> "none"]

Top == frames[Len(frames)]
SetTop(f) == [frames EXCEPT ![Len(frames)] = f]
Pop == SubSeq(frames, 1, Len(frames) - 1)

Running == pc = "running" /\ frames # <<>> /\ ret = "none"

\* total_weight += w; if( total_weight >= auth.weight_threshold ) return true;
Credit(w) ==
    IF Top.total_weight + w >= Top.au.weight_threshold
    THEN frames' = Pop /\ ret' = "true"
    ELSE /\ frames' = SetTop([Top EXCEPT !.total_weight = @ + w,
                                         !.todo = Tail(@), !.await = "none"])
         /\ ret' = "none"

\* the loop goes on to its next entry
Skip ==
    /\ frames' = SetTop([Top EXCEPT !.todo = Tail(@), !.await = "none"])
    /\ ret' = "none"

\* one iteration of for( const auto& k : auth.key_auths )
KeyAuthStep ==
    /\ Running /\ Top.loop = "key_auths" /\ Top.todo # <<>>
    /\ LET r == signed_by_key(sstate, Head(Top.todo))
       IN /\ sstate' = r.s
          /\ IF r.ret THEN Credit(Top.au.key_auths[Head(Top.todo)]) ELSE Skip
    /\ UNCHANGED <<chain, trx, pc, call, result>>

\* one iteration of for( const auto& k : auth.address_auths )
AddressAuthStep ==
    /\ Running /\ Top.loop = "address_auths" /\ Top.todo # <<>>
    /\ LET r == signed_by_address(sstate, Head(Top.todo))
       IN /\ sstate' = r.s
          /\ IF r.s.aborted
             THEN pc' = "aborted" /\ frames' = <<>> /\ ret' = "none"
             ELSE /\ pc' = pc
                  /\ IF r.ret THEN Credit(Top.au.address_auths[Head(Top.todo)])
                     ELSE Skip
    /\ UNCHANGED <<chain, trx, call, result>>

\* a loop has visited all its entries: the next loop starts, or the call
\* returns total_weight >= auth.weight_threshold
LoopEnd ==
    /\ Running /\ Top.todo = <<>>
    /\ IF Top.loop = "key_auths"
       THEN /\ frames' = SetTop([Top EXCEPT !.loop = "address_auths",
                          !.todo = Ascending(DOMAIN Top.au.address_auths)])
            /\ ret' = "none"
       ELSE IF Top.loop = "address_auths"
       THEN /\ frames' = SetTop([Top EXCEPT !.loop = "account_auths",
                          !.todo = Ascending(DOMAIN Top.au.account_auths)])
            /\ ret' = "none"
       ELSE /\ frames' = Pop
            /\ ret' = IF Top.total_weight >= Top.au.weight_threshold
                      THEN "true" ELSE "false"
    /\ UNCHANGED <<chain, trx, pc, call, result, sstate>>

\* check_authority( get_active( a.first ), depth+1 ) or
\* check_authority( get_owner( a.first ), depth+1 ): a null authority returns
\* false at once, any other gets a frame
CallNested(which, au) ==
    IF au = nullptr
    THEN /\ frames' = SetTop([Top EXCEPT !.await = which])
         /\ ret' = "false"
         /\ sstate' = sstate
    ELSE /\ frames' = Append(SetTop([Top EXCEPT !.await = which]),
                             NewFrame(au, Top.depth + 1))
         /\ ret' = "none"
         /\ sstate' = Entered(sstate, Top.depth + 1)

\* a variant that tests the depth before approved_by
AccountAuthStepDepthFirst ==
    /\ Running /\ Top.loop = "account_auths" /\ Top.todo # <<>>
    /\ IF DepthExhausted(sstate, Top.depth)
       THEN Skip /\ sstate' = sstate
       ELSE IF Head(Top.todo) \in sstate.approved_by
       THEN Credit(Top.au.account_auths[Head(Top.todo)]) /\ sstate' = sstate
       ELSE CallNested("active", get_active(Head(Top.todo)))
    /\ UNCHANGED <<chain, trx, pc, call, result>>

\* one iteration of for( const auto& a : auth.account_auths ), up to the
\* nested call
AccountAuthStep ==
    /\ Running /\ Top.loop = "account_auths" /\ Top.todo # <<>>
    /\ IF Head(Top.todo) \in sstate.approved_by
       THEN Credit(Top.au.account_auths[Head(Top.todo)]) /\ sstate' = sstate
       ELSE IF DepthExhausted(sstate, Top.depth)
       THEN Skip /\ sstate' = sstate
       ELSE CallNested("active", get_active(Head(Top.todo)))
    /\ UNCHANGED <<chain, trx, pc, call, result>>

\* a nested call has returned into the condition
\* check_authority( get_active ) || ( allow_non_immediate_owner && check_authority( get_owner ) )
NestedReturn ==
    /\ pc = "running" /\ frames # <<>> /\ ret # "none"
    /\ IF ret = "true"
       THEN /\ sstate' = [sstate EXCEPT !.approved_by = @ \cup {Head(Top.todo)}]
            /\ Credit(Top.au.account_auths[Head(Top.todo)])
       ELSE IF Top.await = "active" /\ sstate.allow_non_immediate_owner
       THEN CallNested("owner", get_owner(Head(Top.todo)))
       ELSE Skip /\ sstate' = sstate
    /\ UNCHANGED <<chain, trx, pc, call, result>>

\* the outermost call returns to its caller
OutermostReturn ==
    /\ pc = "running" /\ frames = <<>> /\ ret # "none"
    /\ pc' = "done"
    /\ result' = [ret |-> ret = "true", s |-> sstate]
    /\ UNCHANGED <<chain, trx, call, frames, sstate, ret>>

\* a caller builds a sign_state and calls check_authority( get_active( X ) )
Start(sigs, available_keys, approved, allow_owner, max_rec) ==
    /\ pc = "running"
    /\ call = [op |-> "check_authority", au |-> get_active(X), depth |-> 0,
               sigs |-> sigs, available_keys |-> available_keys,
               approved |-> approved, allow_non_immediate_owner |-> allow_owner,
               max_recursion |-> max_rec]
    /\ result = [kind |-> "none"]
    /\ frames = <<NewFrame(get_active(X), 0)>>
    /\ sstate = [sign_state_ctor(sigs, allow_owner, max_rec, available_keys)
                    EXCEPT !.approved_by = @ \cup approved]
    /\ ret = "none"

StepInit ==
    /\ \E sc \in Scenarios :
          /\ build \in sc.builds
          /\ active_auths = sc.active
          /\ owner_auths = sc.owner
          /\ custom_auths = sc.custom
          /\ \E sigs \in SUBSET Keys, available_keys \in {{}, Keys},
                approved \in ApprovalSets, allow_owner \in BOOLEAN,
                max_rec \in 0..MaxRecursion :
                /\ trx = [Transaction(sc.ops, FALSE) EXCEPT !.signatures =
                             [i \in 1..Cardinality(sigs) |->
                                 sign_compact(Ascending(sigs)[i],
                                              sig_digest(Transaction(sc.ops, FALSE)))]]
                /\ Start(sigs, available_keys, approved, allow_owner, max_rec)

StepNext ==
    \/ KeyAuthStep
    \/ AddressAuthStep
    \/ LoopEnd
    \/ AccountAuthStep
    \/ NestedReturn
    \/ OutermostReturn

\* the calls run in one thread: a statement that can execute does
StepSpec == StepInit /\ [][StepNext]_vars /\ WF_vars(StepNext)

(***************************************************************************)
(* Properties.                                                             *)
(***************************************************************************)
VerifyReturned == pc = "returned" /\ call.op = "verify_authority"

\* the last verify_authority call again, with another set of signature keys
VerifyWith(sigs) ==
    verify_authority(trx.operations, sigs, call.allow_non_immediate_owner,
                     call.ignore_custom, call.max_recursion, call.allow_committee,
                     call.active_aprovals, call.owner_approvals)

MissingAuthority ==
    {"tx_missing_other_auth", "tx_missing_owner_auth", "tx_missing_active_auth"}

\* C1: if verify_authority succeeds with one key of the signature set
\* removed, then with the whole set it fails with tx_irrelevant_sig.
C1_Irrelevance ==
    (VerifyReturned /\ \E k \in call.sigs : VerifyWith(call.sigs \ {k}).kind = "ok")
        => result.kind = "tx_irrelevant_sig"

\* C2: when no earlier error is raised and some provided key contributed
\* weight to no authority check that returned true, verify_authority fails
\* with tx_irrelevant_sig.
C2_UncreditedKeyRejected ==
    (/\ VerifyReturned
     /\ result.kind \in {"ok", "tx_irrelevant_sig"}
     /\ \E k \in call.sigs : k \notin result.s.credited)
        => result.kind = "tx_irrelevant_sig"

\* the transaction places one requirement on the head X0 of the chain
\* X0 -> ... -> Xn of active authorities, whose last account is one key
IsChain(n) ==
    /\ active_auths = ChainActive(n)
    /\ custom_auths = NoCustom
    /\ trx.operations \in { <<RequireActive(1, X)>>, <<RequireOwner(1, X)>>,
                            <<RequireOther(1, ChainActive(n)[X])>> }

NoApprovals == call.active_aprovals = {} /\ call.owner_approvals = {}

\* C3: with the last account's key signed and no account pre-approved, a
\* requirement on the head of a delegation chain X0 -> ... -> Xn verifies
\* when n = max_recursion and fails with a missing-authority error when
\* n = max_recursion + 1.
C3_ChainDepth ==
    \A n \in 0..(MaxRecursion + 1) :
        (VerifyReturned /\ IsChain(n) /\ NoApprovals /\ call.sigs = {1}) =>
            /\ n = call.max_recursion => result.kind = "ok"
            /\ n = call.max_recursion + 1 => result.kind \in MissingAuthority

\* the longest chain that still verifies, descended to its last account
C3_Witness ==
    /\ VerifyReturned /\ NoApprovals /\ call.sigs = {1}
    /\ call.max_recursion = MaxRecursion
    /\ IsChain(MaxRecursion)
    /\ result.kind = "ok"
    /\ result.s.deepest = MaxRecursion

\* the depth argument of every check_authority call in progress is at most
\* max_recursion
DepthBounded ==
    /\ Len(frames) <= sstate.max_recursion + 1
    /\ \A i \in DOMAIN frames : frames[i].depth <= sstate.max_recursion

\* X and Y delegate to each other
Cyclic ==
    /\ {X, Y} \subseteq DOMAIN active_auths
    /\ Y \in DOMAIN active_auths[X].account_auths
    /\ X \in DOMAIN active_auths[Y].account_auths

\* C4: every check_authority call terminates, and the depth of the nested
\* calls never exceeds max_recursion.
C4_TerminatesWithinDepth ==
    [](DepthBounded) /\ <>(pc \in {"done", "aborted"})

\* a call on mutually delegating accounts has returned after descending to
\* the recursion bound
C4_Witness ==
    /\ pc = "done"
    /\ Cyclic
    /\ call.max_recursion = MaxRecursion
    /\ result.s.deepest = MaxRecursion

CheckReturned ==
    pc = "returned" /\ call.op = "check_authority" /\ call.au # nullptr

\* C5: check_authority returns true for every non-null authority whose
\* weight_threshold is 0, whatever the signatures, approved accounts and depth.
C5_ZeroThreshold ==
    (CheckReturned /\ call.au[1].weight_threshold = 0) => result.ret

\* the sum of the weights of all entries of an authority
SumOfWeights(auth) ==
    SumWeights(auth.key_auths) + SumWeights(auth.address_auths)
        + SumWeights(auth.account_auths)

\* C6: check_authority returns false (the call comes back, and its value is
\* false) for every authority whose weights sum to less than
\* weight_threshold, whatever the signatures, available keys and approved
\* accounts.
C6_Unsatisfiable ==
    (CheckReturned /\ SumOfWeights(call.au[1]) < call.au[1].weight_threshold)
        => (~result.s.aborted /\ ~result.ret)

\* the same authorities never make check_authority return true
UnsatisfiableNeverTrue ==
    (CheckReturned /\ SumOfWeights(call.au[1]) < call.au[1].weight_threshold)
        => ~result.ret

\* key 1 is signed and matched both as a key entry and as an address entry
\* of an authority that asks for more than all its entries weigh
C6_Witness ==
    /\ CheckReturned
    /\ SumOfWeights(call.au[1]) < call.au[1].weight_threshold
    /\ 1 \in call.sigs
    /\ 1 \in DOMAIN call.au[1].key_auths
    /\ address_of_key(1) \in DOMAIN call.au[1].address_auths
    /\ result.s.provided_signatures[1]
    /\ ~result.s.aborted
    /\ ~result.ret

MinimizeReturned ==
    pc = "returned" /\ call.op = "minimize_required_signatures" /\ result.kind = "ok"

\* verify_authority on the transaction's operations with the flags of the
\* last call and the given signature keys
VerifyKeys(keys) ==
    verify_authority(trx.operations, keys, call.allow_non_immediate_owner,
                     call.ignore_custom, call.max_recursion, call.allow_committee,
                     {}, {}).kind

\* what get_required_signatures returns for the arguments of the last call
RequiredOfCall ==
    get_required_signatures(trx, call.available_keys, call.allow_non_immediate_owner,
                            call.ignore_custom, call.max_recursion).keys

\* C7 as stated: whenever minimize_required_signatures returns a key set,
\* verify_authority with exactly that set succeeds.
C7_MinimizedVerifies ==
    MinimizeReturned => VerifyKeys(result.keys) = "ok"

\* C7: whenever minimize_required_signatures returns a key set and
\* verify_authority succeeds with the set get_required_signatures returns,
\* verify_authority with exactly the minimized set succeeds.
C7_MinimizedVerifiesIfRequiredDoes ==
    (MinimizeReturned /\ VerifyKeys(RequiredOfCall) = "ok")
        => VerifyKeys(result.keys) = "ok"

\* the greedy pass removed a key of a set that verifies
C7_Witness ==
    /\ MinimizeReturned
    /\ VerifyKeys(RequiredOfCall) = "ok"
    /\ result.keys # RequiredOfCall
    /\ result.keys # {}
    /\ VerifyKeys(result.keys) = "ok"

RequiredReturned ==
    pc = "returned" /\ call.op = "get_required_signatures" /\ result.kind = "ok"

\* the keys recovered from the signatures of the transaction
SignatureKeys == get_signature_keys(trx).keys

\* C8: the set minimize_required_signatures returns is a subset of the set
\* get_required_signatures returns, which is a subset of available_keys; both
\* are disjoint from the keys of the signatures the transaction carries.
C8_RequiredWithinAvailable ==
    /\ RequiredReturned =>
          /\ result.keys \subseteq call.available_keys
          /\ result.keys \cap SignatureKeys = {}
    /\ MinimizeReturned =>
          /\ result.keys \subseteq RequiredOfCall
          /\ RequiredOfCall \subseteq call.available_keys
          /\ result.keys \cap SignatureKeys = {}

\* a transaction signed with one available key still needs another one
C8_Witness ==
    /\ MinimizeReturned
    /\ SignatureKeys # {}
    /\ SignatureKeys \subseteq call.available_keys
    /\ result.keys # {}
    /\ result.keys \cap SignatureKeys = {}

\* the authorities the operations of the transaction require
RequiredOfVerify == get_required_authorities(trx.operations, call.ignore_custom)

\* C10: an account whose owner authority is required and which is in
\* owner_approvals does not cause tx_missing_owner_auth; a transaction whose
\* only requirement is the owner authority of such an account verifies with
\* no signatures.
C10_OwnerApprovalSuffices ==
    (/\ VerifyReturned
     /\ RequiredOfVerify.owner # {}
     /\ RequiredOfVerify.owner \subseteq call.owner_approvals)
        => /\ result.kind # "tx_missing_owner_auth"
           /\ (/\ call.sigs = {}
               /\ RequiredOfVerify.active = {}
               /\ RequiredOfVerify.other = <<>>) => result.kind = "ok"

\* X's owner authority is required and cannot be satisfied, X is in
\* owner_approvals, and the unsigned transaction verifies
C10_Witness ==
    /\ VerifyReturned
    /\ trx.operations = <<RequireOwner(1, X)>>
    /\ get_owner(X) = Ptr(Unsatisfiable)
    /\ call.owner_approvals = {X}
    /\ call.sigs = {}
    /\ result.kind = "ok"

\* the operations from which operation_get_required_authorities derives the
\* committee account as a required active account
CommitteeOps ==
    { op \in SeqToSet(trx.operations) :
        GRAPHENE_COMMITTEE_ACCOUNT \in
            operation_get_required_authorities(op, {}, {}, <<>>,
                                               call.ignore_custom).active }

\* the sign_state verify_authority starts from
InitialState ==
    Approve(sign_state_ctor(call.sigs, call.allow_non_immediate_owner,
                            call.max_recursion, {}),
            call.active_aprovals \cup call.owner_approvals)

\* C11 as stated: with allow_committee false and the committee account among
\* the required active accounts derived for some operation, verify_authority
\* fails with invalid_committee_approval whatever the signatures are.
C11_CommitteeRejected ==
    (VerifyReturned /\ ~call.allow_committee /\ CommitteeOps # {})
        => result.kind = "invalid_committee_approval"

\* C11: with allow_committee false, verify_authority fails with
\* invalid_committee_approval when some operation derives the committee
\* account as a required active account and none of the custom authorities
\* of the committee account for that operation is satisfied by the signatures.
C11_CommitteeRejectedUnlessCustom ==
    (/\ VerifyReturned /\ ~call.allow_committee
     /\ \E op \in CommitteeOps :
           ~approved_by_custom_authority(InitialState,
                                         GRAPHENE_COMMITTEE_ACCOUNT, op).ret)
        => result.kind = "invalid_committee_approval"

\* a transaction whose signatures satisfy every authority, the committee
\* account's included, is rejected because of the committee account alone
C11_Witness ==
    /\ VerifyReturned /\ ~call.allow_committee
    /\ CommitteeOps # {}
    /\ call.sigs # {}
    /\ result.kind = "invalid_committee_approval"
    /\ verify_authority(trx.operations, call.sigs, call.allow_non_immediate_owner,
                        call.ignore_custom, call.max_recursion, TRUE,
                        call.active_aprovals, call.owner_approvals).kind = "ok"

\* two of the signatures recover the same key against the digest
Duplicated(signatures, d) ==
    \E i, j \in DOMAIN signatures :
        i < j /\ recover_public_key(signatures[i], d)
                    = recover_public_key(signatures[j], d)

RecoveredKeys(signatures, d) ==
    { recover_public_key(signatures[i], d) : i \in DOMAIN signatures }

\* what C12 asks of get_signature_keys on one sequence of signatures
DuplicatesRejected(signatures, d, r) ==
    IF Duplicated(signatures, d) THEN r.kind = "tx_duplicate_sig"
    ELSE r.kind = "ok" /\ r.keys = RecoveredKeys(signatures, d)

\* every sequence of at most MaxSigs + 1 signatures made over the digest of
\* the transaction
SignatureSequences ==
    UNION { [1..n -> { sign_compact(k, sig_digest(trx)) : k \in Keys }] :
              n \in 0..(MaxSigs + 1) }

SignatureKeysReturned == pc = "returned" /\ call.op = "get_signature_keys"

\* C12: get_signature_keys fails with tx_duplicate_sig whenever two of the
\* signatures recover the same key against the binding digest, whatever the
\* operations are, and returns the set of the recovered keys exactly when
\* they are pairwise distinct.
C12_DuplicateSignature ==
    SignatureKeysReturned =>
        /\ DuplicatesRejected(trx.signatures, sig_digest(trx), result)
        /\ \A q \in SignatureSequences :
              DuplicatesRejected(q, sig_digest(trx),
                                 get_signature_keys_loop({}, q, sig_digest(trx)))

\* the transaction carries two signatures of one key and get_signature_keys
\* has thrown
C12_Witness ==
    /\ SignatureKeysReturned
    /\ Duplicated(trx.signatures, sig_digest(trx))
    /\ result.kind = "tx_duplicate_sig"

\* what the loop over the operations of the last verify_authority call
\* leaves: the sign_state and the three collections of requirements
AfterOperations ==
    ops_loop([s |-> InitialState, required_active |-> {}, required_owner |-> {},
              other |-> <<>>],
             trx.operations, call.ignore_custom)

\* the sign_state the run has once the other authorities are checked, and
\* once the required owner authorities are
OthersPast == other_loop(AfterOperations.s, AfterOperations.other).s
OwnersPast ==
    required_owner_loop(OthersPast, Ascending(AfterOperations.required_owner),
                        call.owner_approvals).s

\* the conditions of the five errors, each taken by itself on the state the
\* run has when it comes to that step
CommitteeFails ==
    ~call.allow_committee
        /\ GRAPHENE_COMMITTEE_ACCOUNT \in AfterOperations.required_active
OtherFails ==
    \E auth \in SeqToSet(AfterOperations.other) :
        ~check_authority(AfterOperations.s, Ptr(auth), 0).ret
OwnerFails ==
    \E id \in AfterOperations.required_owner :
        id \notin call.owner_approvals
            /\ ~check_authority(OthersPast, get_owner(id), 0).ret
ActiveFails ==
    \E id \in AfterOperations.required_active :
        ~active_or_owner(OwnersPast, id).ret

\* C13: verify_authority raises the first error of the order
\* invalid_committee_approval, tx_missing_other_auth, tx_missing_owner_auth,
\* tx_missing_active_auth, tx_irrelevant_sig whose condition holds, and
\* tx_irrelevant_sig only if every other, owner and active requirement is
\* satisfied.
C13_FirstFailureReported ==
    VerifyReturned =>
        /\ CommitteeFails => result.kind = "invalid_committee_approval"
        /\ (~CommitteeFails /\ OtherFails) => result.kind = "tx_missing_other_auth"
        /\ (~CommitteeFails /\ ~OtherFails /\ OwnerFails)
              => result.kind = "tx_missing_owner_auth"
        /\ (~CommitteeFails /\ ~OtherFails /\ ~OwnerFails /\ ActiveFails)
              => result.kind = "tx_missing_active_auth"
        /\ result.kind = "tx_irrelevant_sig"
              => ~(CommitteeFails \/ OtherFails \/ OwnerFails \/ ActiveFails)

\* the addresses that encode a key
Encodings(k) == { e[1] : e \in AddressEntries(k) }

\* the keys of a set that an address encodes
KeysOfAddress(a, keys) == { k \in keys : a \in Encodings(k) }

\* check_authority is about to call signed_by( address )
AtSignedByAddress == Running /\ Top.loop = "address_auths" /\ Top.todo # <<>>

\* the address is an encoding of no provided key and of no available key
UnknownAddress ==
    KeysOfAddress(Head(Top.todo), DOMAIN sstate.provided_signatures
                                      \cup sstate.available_keys) = {}

\* C14: signed_by(address) returns false and leaves provided_signatures
\* unchanged when the address encodes no provided key and no available key;
\* it returns true only for an address of a provided or an available key, and
\* then marks exactly that key consumed.
C14_SignedByAddress ==
    AtSignedByAddress =>
        LET r == signed_by_address(sstate, Head(Top.todo))
            known == KeysOfAddress(Head(Top.todo),
                                   DOMAIN sstate.provided_signatures
                                       \cup sstate.available_keys)
        IN /\ UnknownAddress =>
                 /\ ~r.s.aborted
                 /\ ~r.ret
                 /\ r.s.provided_signatures = sstate.provided_signatures
           /\ (~r.s.aborted /\ r.ret) =>
                 \E k \in known :
                     r.s.provided_signatures
                         = Put(sstate.provided_signatures, k, TRUE)

\* the sign_state of the running check was built as verify_authority builds
\* it: without available keys
PlainVerification ==
    pc \in {"running", "done"} /\ call.op = "check_authority"
        /\ call.available_keys = {}

\* check_authority is about to call signed_by( key )
AtSignedByKey == Running /\ Top.loop = "key_auths" /\ Top.todo # <<>>

\* C15: during plain verification the keys of provided_signatures are at
\* every step among the input signature keys, and a key_auths entry
\* contributes its weight only if its key is an input signature key.
C15_OnlyProvidedKeys ==
    PlainVerification =>
        /\ DOMAIN sstate.provided_signatures \subseteq call.sigs
        /\ (AtSignedByKey /\ signed_by_key(sstate, Head(Top.todo)).ret)
              => Head(Top.todo) \in call.sigs

\* the accounts a sign_state starts with: the temp account and the caller's
\* pre-approvals
InitiallyApproved == {GRAPHENE_TEMP_ACCOUNT} \cup call.approved

\* a nested check of the delegate the account_auths loop is at has returned
\* true: of its active authority, or of its owner authority where allowed
DelegateCheckedTrue(a) ==
    /\ frames # <<>> /\ ret = "true"
    /\ Top.loop = "account_auths" /\ Top.todo # <<>> /\ Head(Top.todo) = a
    /\ Top.await = "active"
          \/ (Top.await = "owner" /\ sstate.allow_non_immediate_owner)

\* the account_auths loop is at a delegate that is already approved
AtApprovedDelegate ==
    Running /\ Top.loop = "account_auths" /\ Top.todo # <<>>
        /\ Head(Top.todo) \in sstate.approved_by

\* the weight of the entry the loop is at is added without a nested call
CreditedWithoutCheck ==
    /\ sstate' = sstate
    /\ \/ frames' = Pop /\ ret' = "true"
       \/ /\ Len(frames') = Len(frames)
          /\ frames'[Len(frames)].total_weight
                = Top.total_weight + Top.au.account_auths[Head(Top.todo)]

\* C16: approved_by starts with the temp account and the caller's
\* pre-approvals and only grows: an account is added only when a nested check
\* of that delegate's active (or allowed owner) authority has returned true,
\* none is removed, and an approved delegate contributes its weight without
\* a nested check, also at depth = max_recursion.
C16_ApprovedByGrows ==
    /\ sstate.approved_by = InitiallyApproved
    /\ [][ /\ sstate.approved_by \subseteq sstate'.approved_by
           /\ \A a \in sstate'.approved_by \ sstate.approved_by :
                 DelegateCheckedTrue(a)
           /\ AtApprovedDelegate => CreditedWithoutCheck ]_vars

\* an account approved by a nested check is met again as a delegate at the
\* maximal depth
C16_Witness ==
    /\ AtApprovedDelegate
    /\ Head(Top.todo) \notin InitiallyApproved
    /\ Top.depth = sstate.max_recursion

\* the accounts whose active authority an operation requires by itself
RequiredActiveOf(op) ==
    operation_get_required_authorities(op, {}, {}, <<>>, call.ignore_custom).active

\* some candidate custom authority of (account, op) is satisfied by the
\* signatures and approvals of the last verify_authority call
CustomSatisfied(account, op) ==
    \E i \in DOMAIN get_custom(account, op) :
        check_authority(InitialState, Ptr(get_custom(account, op)[i]), 0).ret

\* the operations that require the account's active authority and have no
\* satisfied custom authority for it
UnresolvedOps(account) ==
    { op \in SeqToSet(trx.operations) :
        account \in RequiredActiveOf(op) /\ ~CustomSatisfied(account, op) }

\* C17: a satisfied custom authority of (A, op) removes A from the required
\* active accounts of op only: while some operation requires A's active
\* authority without a satisfied custom authority, A stays in the required
\* active set of the transaction and verification succeeds only if A passes
\* the standard active-or-owner check.
C17_CustomPerOperation ==
    VerifyReturned =>
        \A a \in Accounts :
            UnresolvedOps(a) # {} =>
                /\ a \in AfterOperations.required_active
                /\ result.kind = "ok" => active_or_owner(result.s, a).ret

\* one operation's custom authority of X is satisfied, another operation
\* requires X too, and X fails the standard check
C17_Witness ==
    /\ VerifyReturned /\ result.kind = "tx_missing_active_auth"
    /\ UnresolvedOps(X) # {}
    /\ \E op \in SeqToSet(trx.operations) :
          X \in RequiredActiveOf(op) /\ CustomSatisfied(X, op)

\* the sign_state the last verify_authority call hands to
\* remove_unused_signatures once the other, owner and active loops are past
OwnersChecked(x) ==
    required_owner_loop(x.s, Ascending(AfterOperations.required_owner),
                        call.owner_approvals)
ActivesChecked(w) ==
    required_active_loop(w.s, Ascending(AfterOperations.required_active))
BeforeRemoval ==
    ActivesChecked(OwnersChecked(other_loop(AfterOperations.s,
                                            AfterOperations.other))).s

\* verify_authority got as far as remove_unused_signatures
RemovalReached == VerifyReturned /\ result.kind \in {"ok", "tx_irrelevant_sig"}

\* the input signature keys no signed_by call has matched
Unmatched ==
    { k \in call.sigs : ~BeforeRemoval.provided_signatures[k] }

\* C18: remove_unused_signatures removes exactly the entries of
\* provided_signatures whose flag is false, reports whether there was one and
\* leaves the consumed entries and approved_by as they were; verify_authority
\* succeeds only if every input signature key was matched, and fails with
\* tx_irrelevant_sig if one was not and no earlier error occurred.
C18_UnusedRemoved ==
    RemovalReached =>
        /\ DOMAIN result.s.provided_signatures
              = { k \in DOMAIN BeforeRemoval.provided_signatures :
                      BeforeRemoval.provided_signatures[k] }
        /\ \A k \in DOMAIN result.s.provided_signatures :
              result.s.provided_signatures[k]
        /\ result.s.approved_by = BeforeRemoval.approved_by
        /\ result.kind = "tx_irrelevant_sig"
              <=> (\E k \in DOMAIN BeforeRemoval.provided_signatures :
                      ~BeforeRemoval.provided_signatures[k])
        /\ result.kind = "ok"
              => \A k \in call.sigs :
                    k \in DOMAIN result.s.provided_signatures
                        /\ result.s.provided_signatures[k]
        /\ Unmatched # {} => result.kind = "tx_irrelevant_sig"

\* one signature was used and stays, another one was not and is removed
C18_Witness ==
    /\ RemovalReached /\ result.kind = "tx_irrelevant_sig"
    /\ Unmatched # {} /\ Unmatched # call.sigs
    /\ DOMAIN result.s.provided_signatures = call.sigs \ Unmatched

\* minimize_required_signatures has ended, with a set or an exception, after
\* get_required_signatures gave it a set
MinimizeEnded ==
    /\ pc = "returned" /\ call.op = "minimize_required_signatures"
    /\ get_required_signatures(trx, call.available_keys,
                               call.allow_non_immediate_owner, call.ignore_custom,
                               call.max_recursion).kind = "ok"

MissingKinds ==
    {"tx_missing_owner_auth", "tx_missing_active_auth", "tx_missing_other_auth"}

\* the set the greedy pass re-verifies when it has tentatively removed k and
\* ended with the given keys: what it kept of the keys before k, and every
\* key after k
Reduced(k, kept) ==
    { j \in kept : j < k } \cup { j \in RequiredOfCall : j > k }

\* k stays removed iff the re-verification succeeds and is restored iff it
\* fails with one of the three missing-authority errors
GreedyChoice(k, kept) ==
    /\ k \notin kept <=> VerifyKeys(Reduced(k, kept)) = "ok"
    /\ k \in kept <=> VerifyKeys(Reduced(k, kept)) \in MissingKinds

\* C19 as stated: every tentatively removed key stays removed iff the
\* re-verification succeeds and is restored iff it fails with a
\* missing-authority error; no re-verification fails otherwise, so
\* minimize_required_signatures always returns a set.
C19_MinimizeAlwaysReturns ==
    MinimizeEnded =>
        /\ result.kind = "ok"
        /\ \A k \in RequiredOfCall : GreedyChoice(k, result.keys)

\* the greedy pass got as far as k with the given keys kept, and the
\* re-verification without k failed with the error the call ended with
StoppedAt(k, kept) ==
    /\ \A j \in RequiredOfCall : j < k => GreedyChoice(j, kept)
    /\ VerifyKeys(Reduced(k, kept)) = result.kind
    /\ result.kind \notin {"ok"} \cup MissingKinds

\* C19: every tentatively removed key stays removed iff the re-verification
\* succeeds and is restored iff it fails with a missing-authority error; the
\* first re-verification that ends in any other way ends the pass, and
\* minimize_required_signatures ends that way instead of returning a set.
C19_MinimizeReturnsOrPropagates ==
    MinimizeEnded =>
        IF result.kind = "ok"
        THEN \A k \in RequiredOfCall : GreedyChoice(k, result.keys)
        ELSE \E k \in RequiredOfCall :
                \E kept \in SUBSET { j \in RequiredOfCall : j < k } :
                    StoppedAt(k, kept)

\* the pass restored one key and left another one removed
C19_Witness ==
    /\ MinimizeEnded /\ result.kind = "ok"
    /\ result.keys # {}
    /\ RequiredOfCall \ result.keys # {}
    /\ \A k \in RequiredOfCall : GreedyChoice(k, result.keys)

\* an address entry can be credited: the address encodes a signature key, or
\* the lookup of an unknown address reads through the end iterator
Creditable(x) == KeysOfAddress(x, call.sigs) # {} \/ build = "lenient"

\* the weight an authority's own entries can gather from the signature keys
\* of the last call and from a set of approved accounts
GatheredWeight(auth, approved) ==
    SumWeights([k \in DOMAIN auth.key_auths \cap call.sigs |-> auth.key_auths[k]])
    + SumWeights([a \in { x \in DOMAIN auth.address_auths : Creditable(x) }
                     |-> auth.address_auths[a]])
    + SumWeights([d \in DOMAIN auth.account_auths \cap approved
                     |-> auth.account_auths[d]])

SatisfiedBy(au, approved) ==
    au # nullptr /\ GatheredWeight(au[1], approved) >= au[1].weight_threshold

\* the accounts that can be approved through active authorities alone: the
\* initially approved ones and, n times over, those whose active authority
\* the signatures and the accounts found so far satisfy
RECURSIVE ActiveApprovable(_, _)
ActiveApprovable(approved, n) ==
    IF n = 0 THEN approved
    ELSE ActiveApprovable(approved \cup { a \in DOMAIN active_auths :
                                            SatisfiedBy(get_active(a), approved) },
                          n - 1)

ApprovableByActive ==
    ActiveApprovable(InitialState.approved_by, Cardinality(Accounts))

\* C20: with allow_non_immediate_owner = false no account is approved through
\* its owner authority, as a delegate or through check_authority(account_id):
\* the approved accounts are approvable through active authorities alone, and
\* a required active account passes only if it is such an account, or its
\* active authority is satisfied, or, by the top-level fallback of
\* verify_authority, its owner authority is.
C20_NoOwnerForDelegates ==
    (VerifyReturned /\ ~call.allow_non_immediate_owner) =>
        /\ result.s.approved_by \subseteq ApprovableByActive
        /\ result.kind = "ok" =>
              \A a \in AfterOperations.required_active :
                  \/ a \in ApprovableByActive
                  \/ SatisfiedBy(get_owner(a), ApprovableByActive)

\* a delegate whose owner authority alone is signed is not approved and the
\* account delegating to it is missing, although the same call passes once
\* non-immediate owners are allowed
C20_Witness ==
    /\ VerifyReturned /\ ~call.allow_non_immediate_owner
    /\ result.kind = "tx_missing_active_auth"
    /\ \E d \in DOMAIN get_active(X)[1].account_auths :
          /\ d # X
          /\ d \notin result.s.approved_by
          /\ SatisfiedBy(get_owner(d), {})
    /\ verify_authority(trx.operations, call.sigs, TRUE, call.ignore_custom,
                        call.max_recursion, call.allow_committee,
                        call.active_aprovals, call.owner_approvals).kind = "ok"

\* the top-level fallback: a required active account passes through its
\* owner authority while non-immediate owners are not allowed
TopLevelFallbackTaken ==
    /\ VerifyReturned /\ ~call.allow_non_immediate_owner /\ result.kind = "ok"
    /\ \E a \in AfterOperations.required_active :
          /\ a \notin ApprovableByActive
          /\ SatisfiedBy(get_owner(a), ApprovableByActive)

\* the outcomes of verify_authority that raise no committee and no
\* missing-authority error
AuthoritySatisfied == {"ok", "tx_irrelevant_sig"}

\* the signature key sets that contain the keys of the last call
Supersets == { S \in SUBSET Keys : call.sigs \subseteq S }

\* C21: authority satisfaction is monotone in the signature set: when
\* verify_authority raises no committee and no missing-authority error with
\* the keys S, it raises none with any S' that contains S, the other inputs
\* being the same: it succeeds or fails with tx_irrelevant_sig.
C21_MonotoneInSignatures ==
    (VerifyReturned /\ result.kind \in AuthoritySatisfied) =>
        \A S \in Supersets : VerifyWith(S).kind \in AuthoritySatisfied

=============================================================================
